---- MODULE Spec2Model ----
(***************************************************************************)
(* Model of the sales-data repository: the generator script                *)
(* (Projeto-1/gerar_arquivos_csv_vendas.py) and the Streamlit dashboard    *)
(* script (dashboard_vendas_projeto.py).                                   *)
(*                                                                         *)
(* Money is counted in whole units (exact integers stand for the floats of *)
(* the source); a pandas missing value is the value NaN; a float division  *)
(* is an exact fraction, or one of NaN, +inf, -inf as IEEE division gives. *)
(***************************************************************************)
EXTENDS Integers, Sequences, FiniteSets, TLC

VARIABLES
    \* ---- generator script -------------------------------------------------
    gpc,                \* position of the generator script
    fornecedores_data,  \* rows appended so far (list of dicts)
    produtos_data,
    clientes_data,
    vendedores_data,
    vendas_data,
    \* ---- the CSV files on disk ---------------------------------------------
    disk,
    \* ---- dashboard process -------------------------------------------------
    cache,              \* st.cache_data entry of load_data: empty, or the value it returned
    widgets,            \* session state of the sidebar and tab widgets
    run,                \* what the last script run did and produced
    interacoes,         \* widget interactions and manual reruns so far in this session
    cargas,             \* executions of load_data's body so far in this process
    mudancas,           \* changes made to the files on disk so far
    carga_em            \* the value of mudancas when load_data's body last ran (-1: never)

vars == <<gpc, fornecedores_data, produtos_data, clientes_data, vendedores_data,
          vendas_data, disk, cache, widgets, run, interacoes, cargas, mudancas,
          carga_em>>

gen_vars == <<gpc, fornecedores_data, produtos_data, clientes_data, vendedores_data,
              vendas_data>>

dash_vars == <<cache, widgets, run, interacoes, cargas, mudancas, carga_em>>

----------------------------------------------------------------------------
(* Generic helpers                                                          *)

NaN == "NaN"

RECURSIVE SeqToSet(_)
SeqToSet(s) == IF s = <<>> THEN {} ELSE {Head(s)} \cup SeqToSet(Tail(s))

RECURSIVE SumSeq(_)
SumSeq(s) == IF s = <<>> THEN 0 ELSE Head(s) + SumSeq(Tail(s))

Abs(x) == IF x < 0 THEN -x ELSE x

RECURSIVE Gcd(_, _)
Gcd(a, b) == IF b = 0 THEN a ELSE Gcd(b, a % b)

----------------------------------------------------------------------------
(* Generator script                                                         *)

\* Table sizes of the generator (NUM_* of the source, scaled down).
NumFornecedores == 2
NumProdutos == 2
NumClientes == 2
NumVendedores == 2
NumVendas == 2

\* random.uniform(5.0, 500.0): the two ends of the range.
CustoMin == 5
CustoMax == 500
\* random.uniform(1.2, 2.5), in percent.
MarkupMin == 120
MarkupMax == 250
\* random.randint(1, 10): the two ends of the range.
QtdMin == 1
QtdMax == 10

Column(rows, col) == [i \in 1..Len(rows) |-> rows[i][col]]

\* fornecedor_ids = fornecedores_df['id_fornecedor'].tolist()
fornecedor_ids == SeqToSet(Column(fornecedores_data, "id_fornecedor"))

\* produto_ids = produtos_df['id_produto'].tolist()
produto_ids == SeqToSet(Column(produtos_data, "id_produto"))

\* cliente_ids = clientes_df['id_cliente'].tolist()
cliente_ids_off == 1..(Len(clientes_data) + 1)
cliente_ids == SeqToSet(Column(clientes_data, "id_cliente"))

vendedor_ids == SeqToSet(Column(vendedores_data, "id_vendedor"))

\* precos_produtos = produtos_df.set_index('id_produto')['preco_venda_unitario'].to_dict()
\* (a later row of the same id overwrites an earlier one)
precos_produtos(id) ==
    LET idx == {i \in 1..Len(produtos_data) : produtos_data[i].id_produto = id}
        last == CHOOSE i \in idx : \A j \in idx : j <= i
    IN produtos_data[last].preco_venda_unitario

\* The dashboard process is not running.
DashIdle ==
    /\ cache = [tipo |-> "vazio"]
    /\ widgets = [tipo |-> "nenhum"]
    /\ run = [resultado |-> "nenhum"]
    /\ interacoes = 0
    /\ cargas = 0
    /\ mudancas = 0
    /\ carga_em = -1

GenInit ==
    /\ DashIdle
    /\ gpc = "fornecedores"
    /\ fornecedores_data = <<>>
    /\ produtos_data = <<>>
    /\ clientes_data = <<>>
    /\ vendedores_data = <<>>
    /\ vendas_data = <<>>
    /\ disk = [f \in {"fornecedores", "produtos", "clientes", "vendedores", "vendas"} |->
                 [estado |-> "ausente", linhas |-> <<>>]]

\* for i in range(1, NUM_FORNECEDORES + 1): fornecedores_data.append({...})
GerarFornecedor ==
    /\ gpc = "fornecedores"
    /\ IF Len(fornecedores_data) < NumFornecedores
       THEN /\ fornecedores_data' = Append(fornecedores_data,
                    [id_fornecedor |-> Len(fornecedores_data) + 1])
            /\ gpc' = gpc
       ELSE /\ gpc' = "produtos"
            /\ UNCHANGED fornecedores_data
    /\ UNCHANGED <<produtos_data, clientes_data, vendedores_data, vendas_data, disk>>

\* for i in range(1, NUM_PRODUTOS + 1): produtos_data.append({...})
GerarProduto ==
    /\ gpc = "produtos"
    /\ IF Len(produtos_data) < NumProdutos
       THEN /\ \E custo \in {CustoMin, CustoMax}, markup \in {MarkupMin, MarkupMax},
                  forn \in fornecedor_ids :
                    produtos_data' = Append(produtos_data,
                        [id_produto |-> Len(produtos_data) + 1,
                         preco_custo |-> custo,
                         preco_venda_unitario |-> (custo * markup) \div 100,
                         id_fornecedor |-> forn])
            /\ gpc' = gpc
       ELSE /\ gpc' = "clientes"
            /\ UNCHANGED produtos_data
    /\ UNCHANGED <<fornecedores_data, clientes_data, vendedores_data, vendas_data, disk>>

\* for i in range(1, NUM_CLIENTES + 1): clientes_data.append({...})
GerarCliente ==
    /\ gpc = "clientes"
    /\ IF Len(clientes_data) < NumClientes
       THEN /\ clientes_data' = Append(clientes_data,
                    [id_cliente |-> Len(clientes_data) + 1])
            /\ gpc' = gpc
       ELSE /\ gpc' = "vendedores"
            /\ UNCHANGED clientes_data
    /\ UNCHANGED <<fornecedores_data, produtos_data, vendedores_data, vendas_data, disk>>

\* for i in range(1, NUM_VENDEDORES + 1): vendedores_data.append({...})
GerarVendedor ==
    /\ gpc = "vendedores"
    /\ IF Len(vendedores_data) < NumVendedores
       THEN /\ vendedores_data' = Append(vendedores_data,
                    [id_vendedor |-> Len(vendedores_data) + 1])
            /\ gpc' = gpc
       ELSE /\ gpc' = "vendas"
            /\ UNCHANGED vendedores_data
    /\ UNCHANGED <<fornecedores_data, produtos_data, clientes_data, vendas_data, disk>>

\* for i in range(1, NUM_VENDAS + 1): ... vendas_data.append({...})
GerarVenda ==
    /\ gpc = "vendas"
    /\ IF Len(vendas_data) < NumVendas
       THEN /\ \E id_prod \in produto_ids, quantidade \in {QtdMin, QtdMax},
                  id_cli \in cliente_ids, id_vend \in vendedor_ids :
                    vendas_data' = Append(vendas_data,
                        [id_venda |-> Len(vendas_data) + 1,
                         id_produto |-> id_prod,
                         id_cliente |-> id_cli,
                         id_vendedor |-> id_vend,
                         quantidade_vendida |-> quantidade,
                         valor_total_venda |-> precos_produtos(id_prod) * quantidade])
            /\ gpc' = gpc
       ELSE /\ gpc' = "salvar"
            /\ UNCHANGED vendas_data
    /\ UNCHANGED <<fornecedores_data, produtos_data, clientes_data, vendedores_data, disk>>

\* the five to_csv calls
SalvarCSV ==
    /\ gpc = "salvar"
    /\ disk' = [fornecedores |-> [estado |-> "ok", linhas |-> fornecedores_data],
                produtos     |-> [estado |-> "ok", linhas |-> produtos_data],
                clientes     |-> [estado |-> "ok", linhas |-> clientes_data],
                vendedores   |-> [estado |-> "ok", linhas |-> vendedores_data],
                vendas       |-> [estado |-> "ok", linhas |-> vendas_data]]
    /\ gpc' = "fim"
    /\ UNCHANGED <<fornecedores_data, produtos_data, clientes_data, vendedores_data,
                   vendas_data>>

GenNext ==
    /\ \/ GerarFornecedor
       \/ GerarProduto
       \/ GerarCliente
       \/ GerarVendedor
       \/ GerarVenda
       \/ SalvarCSV
    /\ UNCHANGED dash_vars

SpecGen == GenInit /\ [][GenNext]_vars

FKResolve(prods, forns, clis, vends, vds) ==
    /\ \A i \in 1..Len(prods) :
          \E j \in 1..Len(forns) : forns[j].id_fornecedor = prods[i].id_fornecedor
    /\ \A i \in 1..Len(vds) :
          /\ \E j \in 1..Len(prods) : prods[j].id_produto = vds[i].id_produto
          /\ \E j \in 1..Len(clis) : clis[j].id_cliente = vds[i].id_cliente
          /\ \E j \in 1..Len(vends) : vends[j].id_vendedor = vds[i].id_vendedor

\* C10: in the generator's tables, at every point of the generation and in the files
\* it writes, every foreign key resolves: each sale's id_produto, id_cliente and
\* id_vendedor is the id of a product, customer and seller row, and each product's
\* id_fornecedor is the id of a supplier row.
C10_ForeignKeysResolve ==
    /\ FKResolve(produtos_data, fornecedores_data, clientes_data, vendedores_data,
                 vendas_data)
    /\ gpc = "fim" =>
          FKResolve(disk.produtos.linhas, disk.fornecedores.linhas, disk.clientes.linhas,
                    disk.vendedores.linhas, disk.vendas.linhas)

\* The files are written with all sales generated, two of them for different products.
C10_Witness ==
    /\ gpc = "fim"
    /\ Len(disk.vendas.linhas) = NumVendas
    /\ Len(disk.produtos.linhas) = NumProdutos
    /\ \E i, j \in 1..Len(disk.vendas.linhas) :
          disk.vendas.linhas[i].id_produto # disk.vendas.linhas[j].id_produto

----------------------------------------------------------------------------
(* Floats of pandas: an exact fraction n/d (d > 0, lowest terms), NaN, +inf  *)
(* or -inf.                                                                  *)

FNorm(n, d) ==
    LET g == Gcd(Abs(n), Abs(d))
        sn == IF d < 0 THEN -n ELSE n
    IN [k |-> "num", n |-> sn \div g, d |-> Abs(d) \div g]

F(n) == [k |-> "num", n |-> n, d |-> 1]
FNaN == [k |-> "nan", n |-> 0, d |-> 1]
FInf == [k |-> "inf", n |-> 1, d |-> 1]
FNegInf == [k |-> "inf", n |-> -1, d |-> 1]

IsNaN(x) == x.k = "nan"
IsFinite(x) == x.k = "num"

\* float - float and float * float on finite or missing operands
FSub(a, b) == IF IsNaN(a) \/ IsNaN(b) THEN FNaN ELSE FNorm(a.n * b.d - b.n * a.d, a.d * b.d)

FMul(a, b) ==
    IF IsNaN(a) \/ IsNaN(b) THEN FNaN
    ELSE IF ~IsFinite(a) \/ ~IsFinite(b)
         THEN (IF a.n * b.n = 0 THEN FNaN ELSE IF a.n * b.n > 0 THEN FInf ELSE FNegInf)
         ELSE FNorm(a.n * b.n, a.d * b.d)

FAdd(a, b) == FNorm(a.n * b.d + b.n * a.d, a.d * b.d)

\* Series / Series of float64 (numpy true_divide): x/0 is +-inf, 0/0 is NaN, no exception
FDiv(a, b) ==
    IF IsNaN(a) \/ IsNaN(b) THEN FNaN
    ELSE IF b.n = 0
         THEN (IF a.n = 0 THEN FNaN ELSE IF a.n > 0 THEN FInf ELSE FNegInf)
         ELSE FNorm(a.n * b.d, a.d * b.n)

\* Series.fillna(0): only missing values are replaced
fillna(x) == IF IsNaN(x) THEN F(0) ELSE x

\* Series.sum() (skipna=True) over a sequence of finite-or-missing floats
RECURSIVE FSum(_)
FSum(s) ==
    IF s = <<>> THEN F(0)
    ELSE IF IsNaN(Head(s)) THEN FSum(Tail(s)) ELSE FAdd(Head(s), FSum(Tail(s)))

----------------------------------------------------------------------------
(* Strings and dates                                                         *)

\* The strings of the model in ascending Python str order (code points).
StrOrder == <<"Ana", "Bola", "Bruno", "Caio", "Caneta", "Carla", "Dado", "Davi", "Duda",
              "Esportes", "Eva", "Faca", "Gil", "Livros", "Norte", "Sul", "Todas", "Todos">>

StrRank(x) == CHOOSE i \in 1..Len(StrOrder) : StrOrder[i] = x
StrLT(a, b) == StrRank(a) < StrRank(b)

\* A calendar day is its ordinal in this window; a datetime is [dia, hora].
Calendario == <<[ano |-> 2024, mes |-> 12, d |-> 31],
                [ano |-> 2025, mes |-> 1, d |-> 1],
                [ano |-> 2025, mes |-> 1, d |-> 2]>>

\* Series.dt.date
dt_date(ts) == ts.dia
\* Series.dt.year
dt_year(ts) == Calendario[ts.dia + 1].ano

\* Series.dt.to_period('M').astype(str): 'YYYY-MM' as its code points
Digit(n) == 48 + n
to_period_M_str(ts) ==
    LET c == Calendario[ts.dia + 1]
    IN <<Digit(c.ano \div 1000), Digit((c.ano \div 100) % 10), Digit((c.ano \div 10) % 10),
         Digit(c.ano % 10), 45, Digit(c.mes \div 10), Digit(c.mes % 10)>>

\* Python str comparison of two code-point sequences
RECURSIVE CodesLT(_, _)
CodesLT(a, b) ==
    IF b = <<>> THEN FALSE
    ELSE IF a = <<>> THEN TRUE
    ELSE IF Head(a) # Head(b) THEN Head(a) < Head(b)
    ELSE CodesLT(Tail(a), Tail(b))

----------------------------------------------------------------------------
(* Dashboard: load_data                                                      *)

LoadedFiles == <<"produtos", "clientes", "vendedores", "vendas">>

\* pd.read_csv of one file: the price and value columns come back as float64
read_csv(f) ==
    LET rows == disk[f].linhas
    IN [estado |-> disk[f].estado,
        linhas |->
          IF f = "produtos"
          THEN [i \in 1..Len(rows) |->
                  [rows[i] EXCEPT !.preco_custo = F(@), !.preco_venda_unitario = F(@)]]
          ELSE IF f = "vendas"
          THEN [i \in 1..Len(rows) |-> [rows[i] EXCEPT !.valor_total_venda = F(@)]]
          ELSE rows]

\* What pd.read_csv raises on a file, "" when it returns a table.
ReadError(f) ==
    CASE disk[f].estado = "ausente" -> "FileNotFoundError"
      [] disk[f].estado = "ilegivel" -> "ParserError"
      [] OTHER -> ""

\* What pd.to_datetime(df[col]) raises on the date column of a file that was read.
DateError(f) ==
    CASE disk[f].estado = "sem_coluna_data" -> "KeyError"
      [] disk[f].estado = "data_invalida" -> "ValueError"
      [] OTHER -> ""

RECURSIVE FirstError(_)
FirstError(errs) ==
    IF errs = <<>> THEN ""
    ELSE IF Head(errs) # "" THEN Head(errs) ELSE FirstError(Tail(errs))

\* The body of load_data: the four reads in order, then the two date conversions; a
\* FileNotFoundError is caught and answered with four None, anything else propagates.
load_data_caught(err) == err = "FileNotFoundError"

load_data_body ==
    LET err == FirstError(<<ReadError("produtos"), ReadError("clientes"),
                            ReadError("vendedores"), ReadError("vendas"),
                            DateError("vendas"), DateError("clientes")>>)
    IN IF err = ""
       THEN [tipo |-> "tabelas",
             produtos_df |-> read_csv("produtos"),
             clientes_df |-> read_csv("clientes"),
             vendedores_df |-> read_csv("vendedores"),
             vendas_df |-> read_csv("vendas")]
       ELSE IF load_data_caught(err)
       THEN [tipo |-> "None", erro |-> err]
       ELSE [tipo |-> "excecao", erro |-> err]

\* @st.cache_data: a stored return value is served without running the body; the
\* key is the function and its (no) arguments; an exception is not stored.
CacheHit == cache.tipo # "vazio"
load_data == IF CacheHit THEN cache ELSE load_data_body
CacheAfter(res) == IF res.tipo = "excecao" THEN cache ELSE res

----------------------------------------------------------------------------
(* Dashboard: merge and derived columns                                      *)

NullProduto == [nome_produto |-> NaN, categoria_produto |-> NaN,
                preco_custo |-> FNaN, preco_venda_unitario |-> FNaN]
NullCliente == [nome_cliente |-> NaN, regiao_cliente |-> NaN]
NullVendedor == [nome_vendedor |-> NaN]

MergeRowInner(l, right, key, nulls) ==
    LET hits == SelectSeq(right, LAMBDA r : r[key] = l[key])
    IN [i \in 1..Len(hits) |-> l @@ hits[i]]

\* The rows pd.merge(left, right, on=key, how='left') makes of one left row: one per
\* matching right row, in right order; a single row with missing attributes if none.
MergeRow(l, right, key, nulls) ==
    LET hits == SelectSeq(right, LAMBDA r : r[key] = l[key])
    IN IF hits = <<>> THEN <<l @@ nulls>>
       ELSE [i \in 1..Len(hits) |-> l @@ hits[i]]

RECURSIVE merge_left(_, _, _, _)
merge_left(left, right, key, nulls) ==
    IF left = <<>> THEN <<>>
    ELSE MergeRow(Head(left), right, key, nulls) \o merge_left(Tail(left), right, key, nulls)

\* lines 49-53: lucro_venda, margem_lucro_percentual, ano_mes_venda, ano_venda
margem_lucro_percentual(lucro, valor) == fillna(FMul(FDiv(lucro, valor), F(100)))

Derive(r) ==
    LET lucro == FMul(FSub(r.preco_venda_unitario, r.preco_custo), F(r.quantidade_vendida))
    IN r @@ [lucro_venda |-> lucro,
             margem_lucro_percentual |-> margem_lucro_percentual(lucro, r.valor_total_venda),
             ano_mes_venda |-> to_period_M_str(r.data_venda),
             ano_venda |-> dt_year(r.data_venda)]

\* lines 44-46: the three left merges; "" or the KeyError a merge raises when its key
\* column is absent from one side
MergeError(t) ==
    IF t.vendas_df.estado = "sem_coluna_chave" \/ t.produtos_df.estado = "sem_coluna_chave"
       \/ t.clientes_df.estado = "sem_coluna_chave"
       \/ t.vendedores_df.estado = "sem_coluna_chave"
    THEN "KeyError" ELSE ""

Merged(t) ==
    merge_left(
        merge_left(
            merge_left(t.vendas_df.linhas, t.produtos_df.linhas, "id_produto", NullProduto),
            t.clientes_df.linhas, "id_cliente", NullCliente),
        t.vendedores_df.linhas, "id_vendedor", NullVendedor)

df_merged_of(t) == LET m == Merged(t) IN [i \in 1..Len(m) |-> Derive(m[i])]

----------------------------------------------------------------------------
(* Dashboard: sidebar filters                                                *)

Dims == {"nome_produto", "categoria_produto", "nome_cliente", "regiao_cliente",
         "nome_vendedor"}

\* The select-all entry of each multiselect.
Sentinel(dim) ==
    IF dim \in {"categoria_produto", "regiao_cliente"} THEN "Todas" ELSE "Todos"

\* The table whose file holds the column.
TableOf(dim) ==
    CASE dim \in {"nome_produto", "categoria_produto"} -> "produtos_df"
      [] dim \in {"nome_cliente", "regiao_cliente"} -> "clientes_df"
      [] OTHER -> "vendedores_df"

\* df[col].unique().tolist()
Unique(df, col) == {df[i][col] : i \in 1..Len(df)}

\* sorted(values): Python cannot order a float NaN against a str
SortedError(values) == IF NaN \in values /\ values # {NaN} THEN "TypeError" ELSE ""

Min(S) == CHOOSE x \in S : \A y \in S : x <= y
Max(S) == CHOOSE x \in S : \A y \in S : y <= x

min_date(df) == Min({dt_date(df[i].data_venda) : i \in 1..Len(df)})
max_date(df) == Max({dt_date(df[i].data_venda) : i \in 1..Len(df)})

\* lines 66-96: the period from the date widget. The widget holds <<>> while untouched
\* (its value is then the default), a pair, or a 1-tuple while a range is half picked.
Period(df, w) ==
    LET lo == min_date(df)
        hi == max_date(df)
    IN IF lo < hi
       THEN (IF w = <<>> THEN [start_date |-> lo, end_date |-> hi]
             ELSE IF Len(w) = 2 THEN [start_date |-> w[1], end_date |-> w[2]]
             ELSE [start_date |-> lo, end_date |-> hi])
       ELSE [start_date |-> lo, end_date |-> lo]

\* lines 99-124: the effective selection of one multiselect
all_values(df, dim) == Unique(df, dim)
Selected(df, w, dim) ==
    IF Sentinel(dim) \in w[dim] THEN all_values(df, dim) ELSE w[dim]

\* Series.isin(values)
isin(x, values) == x \in values

\* lines 127-135: the boolean mask of one row
DateMaskNoDay(r, p) == r.data_venda.dia * 24 + r.data_venda.hora >= p.start_date * 24
                       /\ r.data_venda.dia * 24 + r.data_venda.hora <= p.end_date * 24
DateMask(r, p) == dt_date(r.data_venda) >= p.start_date /\ dt_date(r.data_venda) <= p.end_date

Mask(r, p, sel) ==
    /\ DateMask(r, p)
    /\ isin(r.nome_produto, sel.nome_produto)
    /\ isin(r.categoria_produto, sel.categoria_produto)
    /\ isin(r.nome_cliente, sel.nome_cliente)
    /\ isin(r.regiao_cliente, sel.regiao_cliente)
    /\ isin(r.nome_vendedor, sel.nome_vendedor)

RECURSIVE BoolIndex(_, _, _)
BoolIndex(df, p, sel) ==
    IF df = <<>> THEN <<>>
    ELSE (IF Mask(Head(df), p, sel) THEN <<Head(df)>> ELSE <<>>)
         \o BoolIndex(Tail(df), p, sel)

\* "" or the first error the sidebar raises before the mask is applied, in source order:
\* for each multiselect a KeyError when the column is absent from its file, else a
\* TypeError from sorted()
DimOrder == <<"nome_produto", "categoria_produto", "nome_cliente", "regiao_cliente",
              "nome_vendedor">>

MissingColumn(t, dim) ==
    /\ dim \in {"nome_produto", "nome_cliente", "nome_vendedor"}
    /\ t[TableOf(dim)].estado = "sem_coluna_nome"

SidebarError(t, df) ==
    FirstError([i \in 1..Len(DimOrder) |->
                  IF MissingColumn(t, DimOrder[i]) THEN "KeyError"
                  ELSE SortedError(all_values(df, DimOrder[i]))])

----------------------------------------------------------------------------
(* Dashboard: aggregates                                                     *)

FLT(a, b) == a.n * b.d < b.n * a.d

\* line 237: the group key of the detail table, with its missing-value test and its
\* order (column by column)
ProdutoKey(r) == [id_produto |-> r.id_produto, nome_produto |-> r.nome_produto,
                  categoria_produto |-> r.categoria_produto,
                  preco_venda_unitario |-> r.preco_venda_unitario,
                  preco_custo |-> r.preco_custo]

ProdutoKeyNull(k) ==
    k.nome_produto = NaN \/ k.categoria_produto = NaN
    \/ IsNaN(k.preco_venda_unitario) \/ IsNaN(k.preco_custo)

ProdutoKeyLT(a, b) ==
    IF a.id_produto # b.id_produto THEN a.id_produto < b.id_produto
    ELSE IF a.nome_produto # b.nome_produto THEN StrLT(a.nome_produto, b.nome_produto)
    ELSE IF a.categoria_produto # b.categoria_produto
         THEN StrLT(a.categoria_produto, b.categoria_produto)
    ELSE IF a.preco_venda_unitario # b.preco_venda_unitario
         THEN FLT(a.preco_venda_unitario, b.preco_venda_unitario)
    ELSE FLT(a.preco_custo, b.preco_custo)

\* The order of the values of a group key: the month strings by code point, the detail
\* table's key by columns, every other key as a str column.
KeyLT(key, a, b) ==
    IF key = "ano_mes_venda" THEN CodesLT(a, b)
    ELSE IF key = "produto" THEN ProdutoKeyLT(a, b)
    ELSE StrLT(a, b)

\* A finite set of values of a group key as their ascending sequence.
SortSet(S, key) ==
    [i \in 1..Cardinality(S) |->
        CHOOSE x \in S : Cardinality({y \in S : KeyLT(key, y, x)}) = i - 1]

\* The int64 columns; every other numeric column is float64. Sums are computed on the
\* fraction form and an int64 column's sum is an integer again.
IntCols == {"quantidade_vendida"}
AsFloat(col, v) == IF col \in IntCols THEN F(v) ELSE v
FromFloat(col, x) == IF col \in IntCols THEN x.n ELSE x

ColumnOf(df, col) == [i \in 1..Len(df) |-> AsFloat(col, df[i][col])]

\* lines 147-150: the four KPIs
KPIs_ticket_lucro(df) ==
    LET total_lucro_valor == FSum(ColumnOf(df, "lucro_venda"))
        num_transacoes == Cardinality(Unique(df, "id_venda"))
    IN [total_vendas_valor |-> FSum(ColumnOf(df, "valor_total_venda")),
        total_lucro_valor |-> total_lucro_valor,
        num_transacoes |-> num_transacoes,
        ticket_medio |-> IF num_transacoes > 0
                         THEN FDiv(total_lucro_valor, F(num_transacoes)) ELSE F(0)]

KPIs(df) ==
    LET total_vendas_valor == FSum(ColumnOf(df, "valor_total_venda"))
        num_transacoes == Cardinality(Unique(df, "id_venda"))
    IN [total_vendas_valor |-> total_vendas_valor,
        total_lucro_valor |-> FSum(ColumnOf(df, "lucro_venda")),
        num_transacoes |-> num_transacoes,
        ticket_medio |-> IF num_transacoes > 0
                         THEN FDiv(total_vendas_valor, F(num_transacoes)) ELSE F(0)]

\* df.groupby(key)[col].agg(): one entry per key present (a missing key is dropped),
\* keys ascending
AggSum(df, key, k, col) ==
    FSum(ColumnOf(SelectSeq(df, LAMBDA r : r[key] = k), col))
AggCount(df, key, k, col) ==
    F(Len(SelectSeq(df, LAMBDA r : r[key] = k)))
AggFirst(df, key, k, col) ==
    AsFloat(col, Head(SelectSeq(df, LAMBDA r : r[key] = k))[col])

\* ano_mes_venda is a str column after astype(str) and holds no missing value
IsNullKey(key, k) == key # "ano_mes_venda" /\ k = NaN

GroupKeys(df, key) ==
    SortSet({k \in Unique(df, key) : ~IsNullKey(key, k)}, key)

groupby_count(df, key, col) ==
    LET keys == GroupKeys(df, key)
    IN [i \in 1..Len(keys) |-> [chave |-> keys[i], valor |-> AggCount(df, key, keys[i], col)]]

groupby_sum(df, key, col) ==
    LET keys == GroupKeys(df, key)
    IN [i \in 1..Len(keys) |-> [chave |-> keys[i], valor |-> AggSum(df, key, keys[i], col)]]

\* lines 160-161: groupby('ano_mes_venda')[[valor, lucro]].sum().reset_index(),
\* then sort_values(by='ano_mes_venda')
df_evolucao_first(df) ==
    LET keys == GroupKeys(df, "ano_mes_venda")
    IN [i \in 1..Len(keys) |->
          [ano_mes_venda |-> keys[i],
           valor_total_venda |-> AggFirst(df, "ano_mes_venda", keys[i], "valor_total_venda"),
           lucro_venda |-> AggFirst(df, "ano_mes_venda", keys[i], "lucro_venda")]]

df_evolucao_of(df) ==
    LET keys == GroupKeys(df, "ano_mes_venda")
        g == [i \in 1..Len(keys) |->
                [ano_mes_venda |-> keys[i],
                 valor_total_venda |-> AggSum(df, "ano_mes_venda", keys[i], "valor_total_venda"),
                 lucro_venda |-> AggSum(df, "ano_mes_venda", keys[i], "lucro_venda")]]
        order == SortSet({g[i].ano_mes_venda : i \in 1..Len(g)}, "ano_mes_venda")
    IN [i \in 1..Len(order) |-> CHOOSE r \in SeqToSet(g) : r.ano_mes_venda = order[i]]

\* Series.nlargest(n) (keep='first'): the n largest in descending order, the earlier
\* entry first among equals
RemoveAt(s, i) == SubSeq(s, 1, i - 1) \o SubSeq(s, i + 1, Len(s))

RECURSIVE nlargest_last(_, _)
nlargest_last(s, n) ==
    IF n <= 0 \/ s = <<>> THEN <<>>
    ELSE LET i == CHOOSE a \in 1..Len(s) :
                     /\ \A b \in 1..Len(s) : ~FLT(s[a].valor, s[b].valor)
                     /\ \A b \in (a + 1)..Len(s) : FLT(s[b].valor, s[a].valor)
         IN <<s[i]>> \o nlargest_last(RemoveAt(s, i), n - 1)

RECURSIVE nlargest(_, _)
nlargest(s, n) ==
    IF n <= 0 \/ s = <<>> THEN <<>>
    ELSE LET i == CHOOSE a \in 1..Len(s) :
                     /\ \A b \in 1..Len(s) : ~FLT(s[a].valor, s[b].valor)
                     /\ \A b \in 1..(a - 1) : FLT(s[b].valor, s[a].valor)
         IN <<s[i]>> \o nlargest(RemoveAt(s, i), n - 1)

\* df.groupby(key)[col].sum().nlargest(n).reset_index(): rows with the columns key, col
reset_index(s, key, col) ==
    [i \in 1..Len(s) |->
        [c \in {key, col} |-> IF c = key THEN s[i].chave ELSE FromFloat(col, s[i].valor)]]

top_n_count(df, key, col, n) == reset_index(nlargest(groupby_count(df, key, col), n), key, col)

top_n(df, key, col, n) == reset_index(nlargest(groupby_sum(df, key, col), n), key, col)

\* line 181: groupby('regiao_cliente')['valor_total_venda'].sum().reset_index()
df_vendas_regiao_of(df) ==
    reset_index(groupby_sum(df, "regiao_cliente", "valor_total_venda"),
                "regiao_cliente", "valor_total_venda")

\* lines 237-243: the detail table, one row per product identity (rows with a missing
\* key are dropped), the margin recomputed from the grouped totals
margem_lucro_media_percentual(lucro_total, valor_total) ==
    fillna(FMul(FDiv(lucro_total, valor_total), F(100)))

df_produtos_detalhes_of(df) ==
    LET keys == SortSet({k \in {ProdutoKey(df[i]) : i \in 1..Len(df)} : ~ProdutoKeyNull(k)},
                        "produto")
        rowsOf(k) == SelectSeq(df, LAMBDA r : ProdutoKey(r) = k)
    IN [i \in 1..Len(keys) |->
          LET g == rowsOf(keys[i])
              valor == FSum(ColumnOf(g, "valor_total_venda"))
              lucro == FSum(ColumnOf(g, "lucro_venda"))
          IN keys[i] @@
             [quantidade_total_vendida |->
                  FromFloat("quantidade_vendida", FSum(ColumnOf(g, "quantidade_vendida"))),
              valor_total_arrecadado |-> valor,
              lucro_total_gerado |-> lucro,
              margem_lucro_media_percentual |-> margem_lucro_media_percentual(lucro, valor)]]

----------------------------------------------------------------------------
(* Dashboard: one run of the script                                          *)

\* st.number_input(min_value=3, max_value=20, value=5)
TopNMin == 3
TopNMax == 20
TopNDefault == 5

DefaultCols == {"nome_produto", "categoria_produto", "quantidade_vendida",
                "valor_total_venda", "lucro_venda"}

DefaultWidgets ==
    [periodo |-> <<>>,
     nome_produto |-> {"Todos"}, categoria_produto |-> {"Todas"},
     nome_cliente |-> {"Todos"}, regiao_cliente |-> {"Todas"},
     nome_vendedor |-> {"Todos"},
     top_vendedores_geral |-> TopNDefault,
     tipo_analise_prod |-> "Valor de Venda",
     top_produtos_analise |-> TopNDefault,
     top_clientes_analise |-> TopNDefault,
     colunas |-> DefaultCols]

NoPeriod == [start_date |-> 0, end_date |-> 0]
NoSel == [d \in Dims |-> {}]
NoTabs == [exibe |-> "nada"]

\* lines 259-269: the columns of the detail table the user's selection keeps
cols_to_show(selected) ==
    (selected \cap {"nome_produto", "categoria_produto", "preco_venda_unitario", "preco_custo"})
    \cup (IF "quantidade_vendida" \in selected THEN {"quantidade_total_vendida"} ELSE {})
    \cup (IF "valor_total_venda" \in selected THEN {"valor_total_arrecadado"} ELSE {})
    \cup (IF "lucro_venda" \in selected THEN {"lucro_total_gerado"} ELSE {})
    \cup (IF "margem_lucro_percentual" \in selected
          THEN {"margem_lucro_media_percentual"} ELSE {})

Project(df, cols) == [i \in 1..Len(df) |-> [c \in cols |-> df[i][c]]]

\* lines 143-275: what the two tabs compute from df_filtered
Tabs(df, w) ==
    IF df = <<>> THEN [exibe |-> "info"]
    ELSE [exibe |-> "dados",
          kpis |-> KPIs(df),
          df_evolucao |-> df_evolucao_of(df),
          df_top_vendedores |->
              top_n(df, "nome_vendedor", "valor_total_venda", w.top_vendedores_geral),
          df_vendas_regiao |-> df_vendas_regiao_of(df),
          df_top_produtos |->
              IF w.tipo_analise_prod = "Valor de Venda"
              THEN top_n(df, "nome_produto", "valor_total_venda", w.top_produtos_analise)
              ELSE top_n(df, "nome_produto", "quantidade_vendida", w.top_produtos_analise),
          df_top_clientes |->
              top_n(df, "nome_cliente", "valor_total_venda", w.top_clientes_analise),
          df_produtos_detalhes |-> df_produtos_detalhes_of(df),
          df_display_produtos |->
              IF w.colunas # {}
              THEN Project(df_produtos_detalhes_of(df), cols_to_show(w.colunas))
              ELSE <<>>]

RunRecord(resultado, erro, etapas, carregado, merged, filtered, p, sel, tabs) ==
    [resultado |-> resultado, erro |-> erro, etapas |-> etapas, carregado |-> carregado,
     df_merged |-> merged, df_filtered |-> filtered, periodo |-> p, sel |-> sel,
     tabs |-> tabs]

\* The script from line 36 to its end, with the widgets in state w.
Script(w) ==
    LET res == load_data
    IN IF res.tipo = "excecao"
       THEN RunRecord("excecao", res.erro, {"load"}, res, <<>>, <<>>, NoPeriod, NoSel, NoTabs)
       ELSE IF res.tipo = "None"
       THEN RunRecord("parado", res.erro, {"load"}, res, <<>>, <<>>, NoPeriod, NoSel, NoTabs)
       ELSE IF MergeError(res) # ""
       THEN RunRecord("excecao", MergeError(res), {"load", "merge"}, res, <<>>, <<>>,
                      NoPeriod, NoSel, NoTabs)
       ELSE LET df == df_merged_of(res)
            IN IF df = <<>>
               THEN RunRecord("ok", "", {"load", "merge", "derive", "aggregate"}, res,
                              df, df, NoPeriod, NoSel, Tabs(df, w))
               ELSE IF SidebarError(res, df) # ""
               THEN RunRecord("excecao", SidebarError(res, df),
                              {"load", "merge", "derive", "sidebar"}, res, df, <<>>,
                              Period(df, w.periodo), NoSel, NoTabs)
               ELSE LET per == Period(df, w.periodo)
                        sel == [d \in Dims |-> Selected(df, w, d)]
                        filtered == BoolIndex(df, per, sel)
                    IN RunRecord("ok", "",
                                 {"load", "merge", "derive", "sidebar", "filter", "aggregate"},
                                 res, df, filtered, per, sel, Tabs(filtered, w))

\* A script run: the cache entry and the count of load_data body executions follow it.
RunScript(w) ==
    /\ run' = Script(w)
    /\ cache' = CacheAfter(load_data)
    /\ cargas' = IF CacheHit THEN cargas ELSE cargas + 1
    /\ carga_em' = IF CacheHit THEN carga_em ELSE mudancas
    /\ widgets' = w

----------------------------------------------------------------------------
(* Dashboard sessions over well-formed files                                 *)

MaxVendas == 2
MaxInteracoes == 1

ProdutosCSV ==
    <<[id_produto |-> 1, nome_produto |-> "Bola", categoria_produto |-> "Esportes",
       preco_custo |-> 8, preco_venda_unitario |-> 12],
      [id_produto |-> 2, nome_produto |-> "Caneta", categoria_produto |-> "Livros",
       preco_custo |-> 5, preco_venda_unitario |-> 5]>>

ClientesCSV ==
    <<[id_cliente |-> 1, nome_cliente |-> "Ana", regiao_cliente |-> "Sul"],
      [id_cliente |-> 2, nome_cliente |-> "Bruno", regiao_cliente |-> "Norte"]>>

VendedoresCSV ==
    <<[id_vendedor |-> 1, nome_vendedor |-> "Carla"],
      [id_vendedor |-> 2, nome_vendedor |-> "Davi"]>>

FornecedoresCSV == <<[id_fornecedor |-> 1]>>

\* The rows a sales file may hold: product 3 is in no products file; a total of 0 is
\* a sale recorded without value.
VendaRows ==
    [id_produto : {1, 2, 3}, id_cliente : {1, 2}, id_vendedor : {1, 2},
     data_venda : {[dia |-> 0, hora |-> 13], [dia |-> 2, hora |-> 9]},
     quantidade_vendida : {2}, valor_total_venda : {0, 24}]

WithIds(rows) == [i \in 1..Len(rows) |-> rows[i] @@ [id_venda |-> i]]

File(rows) == [estado |-> "ok", linhas |-> rows]

GenIdle ==
    /\ gpc = "fim"
    /\ fornecedores_data = <<>>
    /\ produtos_data = <<>>
    /\ clientes_data = <<>>
    /\ vendedores_data = <<>>
    /\ vendas_data = <<>>

Init ==
    /\ GenIdle
    /\ \E n \in 0..MaxVendas : \E rows \in [1..n -> VendaRows] :
          disk = [fornecedores |-> File(FornecedoresCSV),
                  produtos |-> File(ProdutosCSV),
                  clientes |-> File(ClientesCSV),
                  vendedores |-> File(VendedoresCSV),
                  vendas |-> File(WithIds(rows))]
    /\ cache = [tipo |-> "vazio"]
    /\ widgets = DefaultWidgets
    /\ run = [resultado |-> "nenhum"]
    /\ interacoes = 0
    /\ cargas = 0
    /\ mudancas = 0
    /\ carga_em = -1

\* The browser opens the page: the first run of the script.
AbrirPainel ==
    /\ run.resultado = "nenhum"
    /\ RunScript(widgets)
    /\ UNCHANGED <<gen_vars, disk, interacoes, mudancas>>

SidebarShown == run.resultado # "nenhum" /\ "sidebar" \in run.etapas
FiltersShown == run.resultado = "ok" /\ "filter" \in run.etapas

\* The user changes the date range: the script reruns.
AlterarPeriodo ==
    /\ SidebarShown
    /\ interacoes < MaxInteracoes
    /\ \E lo \in min_date(run.df_merged)..max_date(run.df_merged) :
       \E hi \in lo..max_date(run.df_merged) :
       \E v \in {<<lo, hi>>, <<lo>>} :
          /\ min_date(run.df_merged) < max_date(run.df_merged)
          /\ v # widgets.periodo
          /\ RunScript([widgets EXCEPT !.periodo = v])
    /\ interacoes' = interacoes + 1
    /\ UNCHANGED <<gen_vars, disk, mudancas>>

\* The user changes one multiselect to any subset of its options: the script reruns.
AlterarSelecao ==
    /\ FiltersShown
    /\ interacoes < MaxInteracoes
    /\ \E dim \in Dims :
       \E s \in SUBSET ({Sentinel(dim)} \cup all_values(run.df_merged, dim)) :
          /\ s # widgets[dim]
          /\ RunScript([widgets EXCEPT ![dim] = s])
    /\ interacoes' = interacoes + 1
    /\ UNCHANGED <<gen_vars, disk, mudancas>>

Next ==
    \/ AbrirPainel
    \/ AlterarPeriodo
    \/ AlterarSelecao

Spec == Init /\ [][Next]_vars

----------------------------------------------------------------------------
(* Claims about the filter and the KPIs (specification Spec)                 *)

FilterRan == run.resultado = "ok" /\ "filter" \in run.etapas
Rows(df) == {df[i] : i \in 1..Len(df)}

\* C1: for every dimension filter, an empty selection (not even the Todos/Todas entry)
\* is treated as "match all": the filtered set is the one the select-all entry would
\* give for that dimension, and is not emptied by the empty selection.
C1_EmptySelectionMatchesAll ==
    FilterRan =>
        \A dim \in Dims :
            widgets[dim] = {} =>
                run.df_filtered =
                    BoolIndex(run.df_merged, run.periodo,
                              [run.sel EXCEPT ![dim] = all_values(run.df_merged, dim)])

\* C2: every denormalized row whose valor_total_venda is 0 has a margin percentage of
\* exactly 0, whatever its profit, and so has every row of the per-product detail
\* table whose grouped total value is 0.
C2_MarginZeroWhenTotalZero ==
    run.resultado = "ok" =>
        /\ \A r \in Rows(run.df_merged) :
              r.valor_total_venda = F(0) => r.margem_lucro_percentual = F(0)
        /\ run.tabs.exibe = "dados" =>
              \A r \in Rows(run.tabs.df_produtos_detalhes) :
                  r.valor_total_arrecadado = F(0) => r.margem_lucro_media_percentual = F(0)

\* Every multiselect holds its select-all entry and the date widget is untouched.
AllSelectAll ==
    /\ widgets.periodo = <<>>
    /\ \A dim \in Dims : Sentinel(dim) \in widgets[dim]

\* C5: with every dimension at its select-all entry and the default date range, the
\* filter returns the full denormalized set unchanged (same rows, same content),
\* rows with missing product attributes included.
C5_SelectAllReturnsAll ==
    (run.resultado # "nenhum" /\ AllSelectAll) =>
        /\ run.resultado = "ok"
        /\ run.df_filtered = df_merged_of(run.carregado)

ZeroKPIs == [total_vendas_valor |-> F(0), total_lucro_valor |-> F(0),
             num_transacoes |-> 0, ticket_medio |-> F(0)]

\* C6: on an empty filtered set the KPI aggregate returns the sums 0, the count 0 and
\* the average 0; on a non-empty one the average is the sum over the distinct count.
C6_EmptyReturnsZeroKPIs ==
    FilterRan =>
        /\ run.tabs.exibe = "dados"
        /\ IF run.df_filtered = <<>>
           THEN run.tabs.kpis = ZeroKPIs
           ELSE FMul(run.tabs.kpis.ticket_medio, F(run.tabs.kpis.num_transacoes))
                    = run.tabs.kpis.total_vendas_valor

\* C6 (amended): on an empty filtered set the run ends without error and the KPI block
\* is skipped (the tab shows the no-data notice; the KPI expressions themselves give
\* 0, 0, 0, 0 on an empty set); on a non-empty filtered set the KPIs are the sum of
\* valor_total_venda, the sum of lucro_venda over the rows where it is present, the
\* number of distinct id_venda, and an average that times that number is the sum.
C6_EmptySkipsKPIs ==
    FilterRan =>
        IF run.df_filtered = <<>>
        THEN run.tabs = [exibe |-> "info"] /\ KPIs(<<>>) = ZeroKPIs
        ELSE /\ run.tabs.exibe = "dados"
             /\ LET k == run.tabs.kpis
                    ids == {r.id_venda : r \in Rows(run.df_filtered)}
                IN /\ k.num_transacoes = Cardinality(ids)
                   /\ k.num_transacoes > 0
                   /\ FMul(k.ticket_medio, F(k.num_transacoes)) = k.total_vendas_valor
                   /\ k.total_vendas_valor.d = 1
                   /\ k.total_vendas_valor.n =
                        SumSeq([i \in 1..Len(run.df_filtered) |->
                                   run.df_filtered[i].valor_total_venda.n])
                   /\ k.total_lucro_valor.n =
                        SumSeq([i \in 1..Len(run.df_filtered) |->
                                   run.df_filtered[i].lucro_venda.n])

\* A run whose filter left no row of a non-empty denormalized set.
C6_Witness ==
    /\ FilterRan
    /\ run.df_merged # <<>>
    /\ run.df_filtered = <<>>

EffectiveStart ==
    IF Len(widgets.periodo) = 2 /\ min_date(run.df_merged) < max_date(run.df_merged)
    THEN widgets.periodo[1] ELSE min_date(run.df_merged)
EffectiveEnd ==
    IF Len(widgets.periodo) = 2 /\ min_date(run.df_merged) < max_date(run.df_merged)
    THEN widgets.periodo[2] ELSE max_date(run.df_merged)

Satisfies(r) ==
    /\ EffectiveStart <= r.data_venda.dia
    /\ r.data_venda.dia <= EffectiveEnd
    /\ \A dim \in Dims : r[dim] \in widgets[dim] \/ Sentinel(dim) \in widgets[dim]

IsSubsequenceAt(sub, df, idx) ==
    /\ Len(sub) = Cardinality(idx)
    /\ \A i \in 1..Len(sub) :
          \E j \in idx : sub[i] = df[j] /\ Cardinality({m \in idx : m < j}) = i - 1

\* C7: the filtered set is exactly the denormalized rows that satisfy all predicates:
\* the calendar day of data_venda within [start, end], both ends included, and each of
\* the five attributes a member of its selection (a selection holding the select-all
\* entry stands for every value); none is left out, none is kept wrongly, and the
\* rows keep their order.
C7_FilterIsConjunction ==
    FilterRan =>
        IsSubsequenceAt(run.df_filtered, run.df_merged,
                        {j \in 1..Len(run.df_merged) : Satisfies(run.df_merged[j])})

\* A narrowed date range that keeps a sale made during its last day and drops another.
C7_Witness ==
    /\ FilterRan
    /\ Len(widgets.periodo) = 2
    /\ \E r \in Rows(run.df_filtered) :
          r.data_venda.dia = widgets.periodo[2] /\ r.data_venda.hora > 0
    /\ Len(run.df_filtered) < Len(run.df_merged)

----------------------------------------------------------------------------
(* One dashboard process while the files on disk change (specification       *)
(* SpecLoad)                                                                 *)

MaxMudancas == 2
MaxReruns == 2

\* The files load_data reads (fornecedores.csv is written by the generator and never
\* read by the dashboard).
InputFiles == SeqToSet(LoadedFiles)

\* What a file on disk can be: well formed, absent, unparseable, or parseable with
\* its merge key column, its first name column or its date column absent, or with a
\* date that does not parse.
EstadosDe(f) ==
    CASE f = "vendas" -> {"ok", "ausente", "ilegivel", "sem_coluna_chave", "sem_coluna_data",
                          "data_invalida"}
      [] f = "clientes" -> {"ok", "ausente", "ilegivel", "sem_coluna_chave",
                            "sem_coluna_nome", "sem_coluna_data", "data_invalida"}
      [] OTHER -> {"ok", "ausente", "ilegivel", "sem_coluna_chave", "sem_coluna_nome"}

VendasA ==
    WithIds(<<[id_produto |-> 1, id_cliente |-> 1, id_vendedor |-> 1,
               data_venda |-> [dia |-> 0, hora |-> 13], quantidade_vendida |-> 2,
               valor_total_venda |-> 24],
              [id_produto |-> 2, id_cliente |-> 2, id_vendedor |-> 2,
               data_venda |-> [dia |-> 2, hora |-> 9], quantidade_vendida |-> 2,
               valor_total_venda |-> 10]>>)

VendasB == SubSeq(VendasA, 1, 1)

ConteudosDe(f) ==
    CASE f = "produtos" -> {ProdutosCSV}
      [] f = "clientes" -> {ClientesCSV}
      [] f = "vendedores" -> {VendedoresCSV}
      [] OTHER -> {VendasA, VendasB}

FilesOf(f) ==
    {[estado |-> e, linhas |-> IF e \in {"ausente", "ilegivel"} THEN <<>> ELSE c] :
        e \in EstadosDe(f), c \in ConteudosDe(f)}

LoadInit ==
    /\ GenIdle
    /\ disk = [fornecedores |-> File(FornecedoresCSV),
               produtos |-> File(ProdutosCSV),
               clientes |-> File(ClientesCSV),
               vendedores |-> File(VendedoresCSV),
               vendas |-> File(VendasA)]
    /\ cache = [tipo |-> "vazio"]
    /\ widgets = DefaultWidgets
    /\ run = [resultado |-> "nenhum"]
    /\ interacoes = 0
    /\ cargas = 0
    /\ mudancas = 0
    /\ carga_em = -1

\* A file is written, replaced, damaged or deleted outside the dashboard process.
ArquivoMuda ==
    /\ mudancas < MaxMudancas
    /\ \E f \in InputFiles : \E novo \in FilesOf(f) :
          /\ novo # disk[f]
          /\ disk' = [disk EXCEPT ![f] = novo]
    /\ mudancas' = mudancas + 1
    /\ UNCHANGED <<gen_vars, cache, widgets, run, interacoes, cargas, carga_em>>

\* The user reruns the page (or touches a widget without changing the filters).
Rerun ==
    /\ run.resultado # "nenhum"
    /\ interacoes < MaxReruns
    /\ RunScript(widgets)
    /\ interacoes' = interacoes + 1
    /\ UNCHANGED <<gen_vars, disk, mudancas>>

LoadNext ==
    \/ AbrirPainel
    \/ Rerun
    \/ ArquivoMuda

SpecLoad == LoadInit /\ [][LoadNext]_vars

\* A step that runs the script.
IsRun ==
    \/ interacoes' # interacoes
    \/ run.resultado = "nenhum" /\ run'.resultado # "nenhum"

\* C3: whenever the script runs with an input file missing or malformed (unparseable,
\* a column absent, a date that does not parse), loading fails with a load error and
\* nothing partial comes of it: no table is returned and no merge, filter or
\* aggregate step runs.
C3_LoadFailsOnBadInput ==
    [][(IsRun /\ \E f \in InputFiles : disk[f].estado # "ok") =>
          /\ run'.resultado \in {"parado", "excecao"}
          /\ run'.carregado.tipo # "tabelas"
          /\ run'.etapas = {"load"}
          /\ run'.df_merged = <<>>]_vars

\* C4: load_data's body runs at most once while the files are unchanged and runs again
\* once they have changed, so that a run after a change (a file absent at the first
\* load and present later included) gets the load of the files as they are now.
C4_LoadFollowsFiles ==
    [][IsRun =>
          IF carga_em = mudancas
          THEN cargas' = cargas
          ELSE cargas' = cargas + 1 /\ run'.carregado = load_data_body]_vars

----------------------------------------------------------------------------
(* The Top-N rankings applied to a filtered set (specification SpecTopN)     *)

MaxLinhasTopN == 4

ProdutosTop ==
    <<[id_produto |-> 1, nome_produto |-> "Bola", categoria_produto |-> "Esportes",
       preco_custo |-> 8, preco_venda_unitario |-> 10],
      [id_produto |-> 2, nome_produto |-> "Caneta", categoria_produto |-> "Livros",
       preco_custo |-> 5, preco_venda_unitario |-> 10],
      [id_produto |-> 3, nome_produto |-> "Dado", categoria_produto |-> "Esportes",
       preco_custo |-> 9, preco_venda_unitario |-> 20],
      [id_produto |-> 4, nome_produto |-> "Faca", categoria_produto |-> "Livros",
       preco_custo |-> 9, preco_venda_unitario |-> 30]>>

ClientesTop ==
    <<[id_cliente |-> 1, nome_cliente |-> "Duda", regiao_cliente |-> "Sul"],
      [id_cliente |-> 2, nome_cliente |-> "Caio", regiao_cliente |-> "Norte"],
      [id_cliente |-> 3, nome_cliente |-> "Bruno", regiao_cliente |-> "Sul"],
      [id_cliente |-> 4, nome_cliente |-> "Ana", regiao_cliente |-> "Norte"]>>

VendedoresTop ==
    <<[id_vendedor |-> 1, nome_vendedor |-> "Eva"],
      [id_vendedor |-> 2, nome_vendedor |-> "Carla"],
      [id_vendedor |-> 3, nome_vendedor |-> "Gil"],
      [id_vendedor |-> 4, nome_vendedor |-> "Davi"]>>

\* A sale of product e to customer e by seller e, priced as the generator prices it.
VendaTop(e, q) ==
    [id_produto |-> e, id_cliente |-> e, id_vendedor |-> e,
     data_venda |-> [dia |-> 0, hora |-> 13], quantidade_vendida |-> q,
     valor_total_venda |-> ProdutosTop[e].preco_venda_unitario * q]

VendaTopRows == {VendaTop(e, q) : e \in 1..4, q \in {1, 2}}

Tables ==
    [tipo |-> "tabelas",
     produtos_df |-> read_csv("produtos"),
     clientes_df |-> read_csv("clientes"),
     vendedores_df |-> read_csv("vendedores"),
     vendas_df |-> read_csv("vendas")]

TopNInit ==
    /\ GenIdle
    /\ \E n \in 1..MaxLinhasTopN : \E rows \in [1..n -> VendaTopRows] :
          disk = [fornecedores |-> File(FornecedoresCSV),
                  produtos |-> File(ProdutosTop),
                  clientes |-> File(ClientesTop),
                  vendedores |-> File(VendedoresTop),
                  vendas |-> File(WithIds(rows))]
    /\ DashIdle

\* The (dimension, metric) pairs ranked at lines 172, 200, 204 and 217.
Rankings ==
    {<<"nome_vendedor", "valor_total_venda">>, <<"nome_produto", "valor_total_venda">>,
     <<"nome_produto", "quantidade_vendida">>, <<"nome_cliente", "valor_total_venda">>}

\* One ranking of the whole denormalized set, and the same ranking applied to its
\* own output.
ConsultarTopN ==
    /\ run.resultado = "nenhum"
    /\ \E q \in Rankings : \E n \in {TopNMin, TopNDefault, TopNMax} :
          LET df == df_merged_of(Tables)
              top == top_n(df, q[1], q[2], n)
          IN run' = [resultado |-> "topn", chave |-> q[1], metrica |-> q[2], n |-> n,
                     grupos |-> Cardinality(Unique(df, q[1])),
                     top |-> top,
                     rerank |-> top_n(top, q[1], q[2], n)]
    /\ UNCHANGED <<gen_vars, disk, cache, widgets, interacoes, cargas, mudancas, carga_em>>

TopNNext == ConsultarTopN

SpecTopN == TopNInit /\ [][TopNNext]_vars

\* C8: Top-N ranking is idempotent: ranking the output of a Top-N query again by the
\* same metric and the same N gives the same groups with the same metric sums.
C8_TopNIdempotent ==
    run.resultado = "topn" =>
        /\ Rows(run.rerank) = Rows(run.top)
        /\ Len(run.rerank) = Len(run.top)

\* A ranking that cut the groups down to N.
C8_Witness ==
    /\ run.resultado = "topn"
    /\ run.n = TopNMin
    /\ run.grupos > run.n
    /\ Len(run.top) = run.n

\* The groups of a ranking: the values of the key column, a missing one excluded.
TopNGroups(df, key) == {k \in Unique(df, key) : k # NaN}

\* The row at which a group is first met in the input rows.
FirstRow(df, key, k) ==
    CHOOSE i \in 1..Len(df) : df[i][key] = k /\ \A j \in 1..(i - 1) : df[j][key] # k

\* The two orders among groups of equal sum: the order of first appearance in the
\* input rows, and the ascending order of the group key.
TieBefore(tie, df, key, a, b) ==
    IF tie = "first_encountered" THEN FirstRow(df, key, a) < FirstRow(df, key, b)
    ELSE StrLT(a, b)

\* top is the ranking of df: min(n, number of groups) rows, each a group with the sum
\* of its metric, every row ahead of the rows after it and of every group left out,
\* where a group is ahead of another by a larger sum or, on equal sums, by the tie order.
IsTopN(top, df, key, col, n, tie) ==
    LET G == TopNGroups(df, key)
        S(k) == AggSum(df, key, k, col)
        Ahead(a, b) == FLT(S(b), S(a)) \/ (S(a) = S(b) /\ TieBefore(tie, df, key, a, b))
        In == {top[i][key] : i \in 1..Len(top)}
    IN /\ Len(top) = (IF n < Cardinality(G) THEN n ELSE Cardinality(G))
       /\ \A i \in 1..Len(top) :
             /\ top[i][key] \in G
             /\ AsFloat(col, top[i][col]) = S(top[i][key])
       /\ \A i, j \in 1..Len(top) : i < j => Ahead(top[i][key], top[j][key])
       /\ \A k \in G \ In : \A i \in 1..Len(top) : Ahead(top[i][key], k)

\* C11: a Top-N query returns the min(N, number of groups) groups with the largest
\* sums of the metric in descending order, groups of equal sum being ordered, and the
\* cut-off decided, by the order in which the groups are first met in the input rows.
C11_TiesByFirstEncountered ==
    run.resultado = "topn" =>
        IsTopN(run.top, df_merged_of(Tables), run.chave, run.metrica, run.n,
               "first_encountered")

\* C11 (amended): the same, groups of equal sum being ordered, and the cut-off decided,
\* by ascending order of the group key.
C11_TiesByGroupKey ==
    run.resultado = "topn" =>
        IsTopN(run.top, df_merged_of(Tables), run.chave, run.metrica, run.n, "group_key")

\* A ranking cut down to N where the last group kept and a group left out have the
\* same sum, and the group left out is met first in the input rows.
C11_Witness ==
    /\ run.resultado = "topn"
    /\ run.n = TopNMin
    /\ Len(run.top) = run.n
    /\ LET df == df_merged_of(Tables)
           last == run.top[run.n][run.chave]
       IN \E k \in TopNGroups(df, run.chave) :
             /\ \A i \in 1..run.n : run.top[i][run.chave] # k
             /\ AggSum(df, run.chave, k, run.metrica)
                    = AggSum(df, run.chave, last, run.metrica)
             /\ FirstRow(df, run.chave, k) < FirstRow(df, run.chave, last)

----------------------------------------------------------------------------
(* The monthly series under row reordering (specification SpecSerie)         *)

MaxLinhasSerie == 3

VendaSerieRows ==
    [id_produto : {1, 3}, id_cliente : {1}, id_vendedor : {1},
     data_venda : {[dia |-> 0, hora |-> 13], [dia |-> 1, hora |-> 0], [dia |-> 2, hora |-> 9]},
     quantidade_vendida : {2}, valor_total_venda : {10, 24}]

SerieInit ==
    /\ GenIdle
    /\ \E n \in 1..MaxLinhasSerie : \E rows \in [1..n -> VendaSerieRows] :
          disk = [fornecedores |-> File(FornecedoresCSV),
                  produtos |-> File(ProdutosCSV),
                  clientes |-> File(ClientesCSV),
                  vendedores |-> File(VendedoresCSV),
                  vendas |-> File(WithIds(rows))]
    /\ DashIdle

Reorderings(n) == {f \in [1..n -> 1..n] : \A i, j \in 1..n : f[i] = f[j] => i = j}

\* The monthly series of the denormalized set and of one reordering of its rows.
SerieReordenada ==
    /\ run.resultado = "nenhum"
    /\ LET df == df_merged_of(Tables)
       IN \E f \in Reorderings(Len(df)) :
             LET perm == [i \in 1..Len(df) |-> df[f[i]]]
             IN run' = [resultado |-> "serie", df |-> df, perm |-> perm,
                        df_evolucao |-> df_evolucao_of(df),
                        df_evolucao_perm |-> df_evolucao_of(perm)]
    /\ UNCHANGED <<gen_vars, disk, cache, widgets, interacoes, cargas, mudancas, carga_em>>

SerieNext == SerieReordenada

SpecSerie == SerieInit /\ [][SerieNext]_vars

Ascending(serie) ==
    \A i \in 1..(Len(serie) - 1) : CodesLT(serie[i].ano_mes_venda, serie[i + 1].ano_mes_venda)

----------------------------------------------------------------------------
(* The merge over parent tables with absent and repeated keys (SpecMerge)    *)

MaxVendasMerge == 2

\* The parent files: both keys present, key 2 absent, key 1 on two rows.
ProdutosMerge ==
    {ProdutosCSV, SubSeq(ProdutosCSV, 1, 1),
     <<ProdutosCSV[1],
       [id_produto |-> 1, nome_produto |-> "Dado", categoria_produto |-> "Livros",
        preco_custo |-> 9, preco_venda_unitario |-> 20]>>}

ClientesMerge ==
    {ClientesCSV, SubSeq(ClientesCSV, 1, 1),
     <<ClientesCSV[1], [id_cliente |-> 1, nome_cliente |-> "Caio", regiao_cliente |-> "Norte"]>>}

VendedoresMerge ==
    {VendedoresCSV, SubSeq(VendedoresCSV, 1, 1),
     <<VendedoresCSV[1], [id_vendedor |-> 1, nome_vendedor |-> "Eva"]>>}

VendaMergeRows ==
    [id_produto : {1, 2}, id_cliente : {1, 2}, id_vendedor : {1, 2},
     data_venda : {[dia |-> 0, hora |-> 13]}, quantidade_vendida : {2},
     valor_total_venda : {24}]

MergeInit ==
    /\ GenIdle
    /\ \E n \in 0..MaxVendasMerge : \E rows \in [1..n -> VendaMergeRows] :
       \E ps \in ProdutosMerge, cs \in ClientesMerge, vs \in VendedoresMerge :
          disk = [fornecedores |-> File(FornecedoresCSV),
                  produtos |-> File(ps),
                  clientes |-> File(cs),
                  vendedores |-> File(vs),
                  vendas |-> File(WithIds(rows))]
    /\ cache = [tipo |-> "vazio"]
    /\ widgets = DefaultWidgets
    /\ run = [resultado |-> "nenhum"]
    /\ interacoes = 0
    /\ cargas = 0
    /\ mudancas = 0
    /\ carga_em = -1

MergeNext == AbrirPainel

SpecMerge == MergeInit /\ [][MergeNext]_vars

\* The run produced the denormalized set.
TransformRan == run.resultado # "nenhum" /\ "derive" \in run.etapas

\* Row r of the denormalized set carries sale v, column by column.
SaleOf(r, v) == \A c \in DOMAIN v : r[c] = v[c]

Hits(tbl, key, v) == {j \in 1..Len(tbl) : tbl[j][key] = v[key]}

\* Row r carries the attributes of a parent row of sale v, or the missing value in
\* every attribute column of that parent when no parent row has the sale's key.
ParentOf(r, v, tbl, key, nulls) ==
    IF Hits(tbl, key, v) = {}
    THEN \A c \in DOMAIN nulls : r[c] = nulls[c]
    ELSE \E j \in Hits(tbl, key, v) : \A c \in DOMAIN tbl[j] : r[c] = tbl[j][c]

UniqueKeys(tbl, key) ==
    \A i, j \in 1..Len(tbl) : tbl[i][key] = tbl[j][key] => i = j

UniqueParentKeys(t) ==
    /\ UniqueKeys(t.produtos_df.linhas, "id_produto")
    /\ UniqueKeys(t.clientes_df.linhas, "id_cliente")
    /\ UniqueKeys(t.vendedores_df.linhas, "id_vendedor")

\* C12: the transform step keeps every sale: each sale row appears in the denormalized
\* set with its own columns, with the attributes of a matching parent row or, when
\* its id_produto, id_cliente or id_vendedor matches no parent row, with null attribute
\* columns for that parent; no row belongs to no sale; and with unique parent keys
\* the denormalized set has exactly one row per sale row, in the order of the sales.
C12_LeftJoinKeepsEverySale ==
    TransformRan =>
        LET t == run.carregado
            v == t.vendas_df.linhas
            df == run.df_merged
        IN /\ \A i \in 1..Len(v) : \E k \in 1..Len(df) :
                 /\ SaleOf(df[k], v[i])
                 /\ ParentOf(df[k], v[i], t.produtos_df.linhas, "id_produto", NullProduto)
                 /\ ParentOf(df[k], v[i], t.clientes_df.linhas, "id_cliente", NullCliente)
                 /\ ParentOf(df[k], v[i], t.vendedores_df.linhas, "id_vendedor",
                             NullVendedor)
           /\ \A k \in 1..Len(df) : \E i \in 1..Len(v) : SaleOf(df[k], v[i])
           /\ UniqueParentKeys(t) =>
                 /\ Len(df) = Len(v)
                 /\ \A i \in 1..Len(v) : SaleOf(df[i], v[i])

\* Unique parent keys, two sales, one of them for a product, a customer and a seller
\* that are in no parent file: both are in the denormalized set.
C12_Witness ==
    /\ TransformRan
    /\ UniqueParentKeys(run.carregado)
    /\ Len(run.carregado.vendas_df.linhas) = MaxVendasMerge
    /\ Len(run.df_merged) = MaxVendasMerge
    /\ \E k \in 1..Len(run.df_merged) :
          /\ run.df_merged[k].nome_produto = NaN
          /\ run.df_merged[k].nome_cliente = NaN
          /\ run.df_merged[k].nome_vendedor = NaN
    /\ \E k \in 1..Len(run.df_merged) : run.df_merged[k].nome_produto # NaN

====
